---- MODULE Spec2Model ----
(***************************************************************************)
(* Model of monitor_miyar_arcteryx_debug.py: the snapshot-diff change      *)
(* detection engine of the Miyar Arc'teryx monitor.                        *)
(*                                                                         *)
(* One run of main() is load_snapshot, build_snapshot, diff_and_report,    *)
(* save_snapshot.  The storefront (catalog) and the snapshot file live     *)
(* across runs.  Prices are integers in cents.  A Python dict is a         *)
(* function; its iteration order is the ascending order of its keys (the   *)
(* feeds list products and variants in that order).  The texts the brand   *)
(* filter reads (title, vendor, tags) are sequences of characters.         *)
(*                                                                         *)
(* Input bounds: the storefront has fewer products than one feed page      *)
(* (250) and one listing page; prices are whole cents.  Under Spec the     *)
(* storefront serves well-formed records and /products.json and            *)
(* /products/<h>.js agree; SpecAcquire starts a run on storefronts where   *)
(* they differ and where records lack a handle or a variant id.            *)
(***************************************************************************)
EXTENDS Integers, Sequences, FiniteSets, TLC

VARIABLES
    catalog,    \* the storefront: handle -> [feed, js] raw product records
    file,       \* SNAPSHOT_PATH: absent, corrupt, or ok with its JSON data
    pc,         \* position of main(): idle, load, build, diff, save, crashed
    old,        \* main's `old` (result of load_snapshot)
    new,        \* main's `new` (result of build_snapshot)
    events,     \* notifications dispatched by the current run, in order
    calls,      \* functions main() has called in the current run, in order
    acq,        \* what build_snapshot did in the current run
    saved,      \* the arguments of the save_snapshot calls of the current run
    runs,       \* number of runs started
    changes,    \* number of storefront changes so far
    notified,   \* events of earlier runs about data that has not changed since
    sink,       \* what the Discord webhook does with a message during the run
    fetch       \* one get_json / get_text call: its url, progress and result

vars == <<catalog, file, pc, old, new, events, calls, acq, saved, runs,
          changes, notified, sink, fetch>>

(***************************************************************************)
(* Bounds                                                                  *)
(***************************************************************************)
MaxQty == 1
MaxRuns == 3
MaxChanges == 3

HandleOrder == <<"h1", "h2">>
Handles == {HandleOrder[i] : i \in 1..Len(HandleOrder)}
Vids == {1, 2}
Prices == {10000, 10999}

\* Python's None in a field that otherwise holds a number (all real
\* quantities, prices and ids of the model are >= 0)
None == -1

\* Python's None in a field that otherwise holds a string
NoneStr == "None"

\* Python's None in a field that otherwise holds a text
NoText == <<"None">>

(***************************************************************************)
(* Data model                                                              *)
(***************************************************************************)
Qtys == {None} \cup (0..MaxQty)

Strs == {NoneStr, "a", "b"}

Texts == {NoText, <<"A">>, <<"B">>}

Urls == {<<"/products/", h>> : h \in Handles}

VariantState ==
    [id : Vids, title : Strs, option1 : Strs, option2 : Strs, option3 : Strs,
     sku : Strs, price : Prices, available : BOOLEAN, inventory_quantity : Qtys]

VariantMaps(V) == UNION {[D -> V] : D \in SUBSET Vids}

ProductState ==
    [handle : Handles, title : Texts, vendor : Texts, url : Urls, image : Strs,
     variants : VariantMaps(VariantState)]

EmptySnapshot == [h \in {} |-> None]

\* isinstance(x, int)
IsInt(x) == x # None

\* the keys of a dict in iteration order
RECURSIVE SortedVids(_)
SortedVids(S) ==
    IF S = {} THEN <<>>
    ELSE LET m == CHOOSE x \in S : \A y \in S : x <= y
         IN  <<m>> \o SortedVids(S \ {m})

VariantIds(p) == SortedVids(DOMAIN p.variants)

HandlesOf(snap) == SelectSeq(HandleOrder, LAMBDA h : h \in DOMAIN snap)

(***************************************************************************)
(* Diff engine                                                             *)
(***************************************************************************)
\* one send_embed call: what it is about (kind, handle, vid) and what the
\* message shows (the variant `rep` it is built from, and prices)
Event(kind, h, vid, rep, oldPrice, newPrice) ==
    [kind |-> kind, handle |-> h, vid |-> vid, rep |-> rep,
     oldPrice |-> oldPrice, newPrice |-> newPrice]

\* desc_new: the message is built from the first variant of the product;
\* next(iter(...)) raises StopIteration on a product without variants
DescNewRaises(p) == DOMAIN p.variants = {}

DescNew_LastVariant(kind, h, vid, p) ==
    Event(kind, h, vid, VariantIds(p)[Len(VariantIds(p))], None,
          p.variants[VariantIds(p)[Len(VariantIds(p))]].price)

DescNew(kind, h, vid, p) ==
    Event(kind, h, vid, Head(VariantIds(p)), None,
          p.variants[Head(VariantIds(p))].price)

\* desc_restock, sent for a restock and for a quantity increase
DescRestock(kind, h, vid, vnew) == Event(kind, h, vid, vid, None, vnew.price)

DescPriceChange(h, vid, vold, vnew) ==
    Event("PriceChange", h, vid, vid, vold.price, vnew.price)

Abs(x) == IF x < 0 THEN -x ELSE x

\* abs((vnew.price or 0) - (vold.price or 0)) > 1e-6, on prices in cents
IsPriceChange(vold, vnew) == Abs(vnew.price - vold.price) > 0

IsRestock_AnyAvailable(vold, vnew) == vnew.available

\* (not bool(vold.available)) and bool(vnew.available)
IsRestock(vold, vnew) == (~vold.available) /\ vnew.available

IsQtyUp_AnyChange(vold, vnew) ==
    /\ IsInt(vnew.inventory_quantity) /\ IsInt(vold.inventory_quantity)
    /\ vnew.inventory_quantity # vold.inventory_quantity

\* both quantities are ints and the new one is larger
IsQtyUp(vold, vnew) ==
    /\ IsInt(vnew.inventory_quantity) /\ IsInt(vold.inventory_quantity)
    /\ vnew.inventory_quantity > vold.inventory_quantity

\* first loop of diff_and_report over the handles hs of `new`
RECURSIVE NewProductLoop(_, _, _)
NewProductLoop(o, n, hs) ==
    IF hs = <<>> THEN [events |-> <<>>, raised |-> FALSE]
    ELSE LET h == Head(hs) IN
         IF h \in DOMAIN o THEN NewProductLoop(o, n, Tail(hs))
         ELSE IF DescNewRaises(n[h]) THEN [events |-> <<>>, raised |-> TRUE]
         ELSE LET r == NewProductLoop(o, n, Tail(hs))
              IN  [events |-> <<DescNew("NewProduct", h, None, n[h])>> \o r.events,
                   raised |-> r.raised]

\* the new-variant loop of one product present in both snapshots
RECURSIVE NewVariantLoop(_, _, _, _)
NewVariantLoop(h, pold, pnew, vs) ==
    IF vs = <<>> THEN <<>>
    ELSE (IF Head(vs) \notin DOMAIN pold.variants
          THEN <<DescNew("NewVariant", h, Head(vs), pnew)>>
          ELSE <<>>)
         \o NewVariantLoop(h, pold, pnew, Tail(vs))

\* the three checks on one variant present in both snapshots
VariantChanges(h, vid, vold, vnew) ==
    (IF IsPriceChange(vold, vnew)
     THEN <<DescPriceChange(h, vid, vold, vnew)>> ELSE <<>>)
    \o (IF IsRestock(vold, vnew)
        THEN <<DescRestock("Restock", h, vid, vnew)>> ELSE <<>>)
    \o (IF IsQtyUp(vold, vnew)
        THEN <<DescRestock("QuantityIncrease", h, vid, vnew)>> ELSE <<>>)

\* the second variant loop of one product present in both snapshots
RECURSIVE ChangedVariantLoop(_, _, _, _)
ChangedVariantLoop(h, pold, pnew, vs) ==
    IF vs = <<>> THEN <<>>
    ELSE (IF Head(vs) \in DOMAIN pold.variants
          THEN VariantChanges(h, Head(vs), pold.variants[Head(vs)],
                              pnew.variants[Head(vs)])
          ELSE <<>>)
         \o ChangedVariantLoop(h, pold, pnew, Tail(vs))

\* second loop of diff_and_report over the handles hs of `new`
RECURSIVE ExistingProductLoop(_, _, _)
ExistingProductLoop(o, n, hs) ==
    IF hs = <<>> THEN <<>>
    ELSE LET h == Head(hs) IN
         (IF h \in DOMAIN o
          THEN NewVariantLoop(h, o[h], n[h], VariantIds(n[h]))
               \o ChangedVariantLoop(h, o[h], n[h], VariantIds(n[h]))
          ELSE <<>>)
         \o ExistingProductLoop(o, n, Tail(hs))

\* the send_embed calls diff_and_report(old, new) makes when every call
\* returns, and whether a desc_new call raised
DiffAndReportCalls(o, n) ==
    LET r1 == NewProductLoop(o, n, HandlesOf(n))
    IN  IF r1.raised THEN r1
        ELSE [events |-> r1.events \o ExistingProductLoop(o, n, HandlesOf(n)),
              raised |-> FALSE]

\* what the webhook does with a message: accepts it, answers with a status
\* of 300 or more, fails in the transport, or is not configured at all
Sinks == {"ok", "http_error", "exception", "no_webhook"}

SendEmbedRaises_NoCatch(s) == s = "exception"

\* send_embed: the post sits in try/except Exception, a bad status is only
\* logged, and without a webhook the message is printed
SendEmbedRaises(s) == FALSE

\* diff_and_report(old, new) with the webhook in condition s: the
\* notifications dispatched, and whether it raised; a send_embed call that
\* raises ends the function at that call
DiffAndReportResult(o, n, s) ==
    LET r == DiffAndReportCalls(o, n)
    IN  IF r.events # <<>> /\ SendEmbedRaises(s)
        THEN [events |-> <<Head(r.events)>>, raised |-> TRUE]
        ELSE r

(***************************************************************************)
(* Brand filter                                                            *)
(***************************************************************************)
UpperCase == <<"A", "B", "C", "D", "E", "F", "G", "H", "I", "J", "K", "L", "M",
               "N", "O", "P", "Q", "R", "S", "T", "U", "V", "W", "X", "Y", "Z">>
LowerCase == <<"a", "b", "c", "d", "e", "f", "g", "h", "i", "j", "k", "l", "m",
               "n", "o", "p", "q", "r", "s", "t", "u", "v", "w", "x", "y", "z">>

\* the lower-case form of each upper-case letter
LowerOf == [c \in {UpperCase[i] : i \in 1..Len(UpperCase)} |->
               LowerCase[CHOOSE i \in 1..Len(UpperCase) : UpperCase[i] = c]]

LowerChar(c) == IF c \in DOMAIN LowerOf THEN LowerOf[c] ELSE c

\* str.lower()
Lower(text) == [i \in 1..Len(text) |-> LowerChar(text[i])]

\* needle in text
Contains(text, needle) ==
    \E i \in 0..(Len(text) - Len(needle)) :
        \A j \in 1..Len(needle) : text[i + j] = needle[j]

\* (x or "")
OrEmpty(text) == IF text = NoText THEN <<>> ELSE text

ArcApostrophe == <<"a", "r", "c", "'", "t", "e", "r", "y", "x">>
ArcPlain == <<"a", "r", "c", "t", "e", "r", "y", "x">>

\* line 228: "arcteryx" in str(tag).lower()
TagMatches(tag) == Contains(Lower(tag), ArcPlain)

IsArcteryx(title, vendor, tags) ==
    LET t == Lower(OrEmpty(title))
        v == Lower(OrEmpty(vendor))
    IN  \/ Contains(v, ArcApostrophe) \/ Contains(v, ArcPlain)
        \/ Contains(t, ArcApostrophe) \/ Contains(t, ArcPlain)
        \/ \E i \in 1..Len(tags) : TagMatches(tags[i])

\* texts of the storefront's records
VendorArcteryx == <<"A", "r", "c", "'", "t", "e", "r", "y", "x">>
VendorArcteryxUpper == <<"A", "R", "C", "'", "T", "E", "R", "Y", "X">>
VendorPatagonia == <<"P", "a", "t", "a", "g", "o", "n", "i", "a">>
TitleShell == <<"S", "h", "e", "l", "l">>
TitleArcteryxBeta == <<"A", "r", "c", "t", "e", "r", "y", "x", " ", "B", "e", "t", "a">>
TagOutdoor == <<"o", "u", "t", "d", "o", "o", "r">>
TagArcteryx == <<"A", "R", "C", "T", "E", "R", "Y", "X", " ", "g", "e", "a", "r">>

Vendors == {VendorArcteryx, VendorPatagonia}

(***************************************************************************)
(* Storefront and normalisation                                            *)
(***************************************************************************)
\* a raw price as the feeds give it: [t |-> "none"], a string showing v
\* cents, or the int v
RawPrices == {[t |-> "str", v |-> 10000], [t |-> "str", v |-> 10999]}

\* a raw variant dict; a missing key reads as None
RawVariant ==
    [id : Vids \cup {None}, title : Strs, option1 : Strs, option2 : Strs,
     option3 : Strs, sku : Strs, price : RawPrices, available : BOOLEAN,
     inventory_quantity : Qtys]

\* money_to_float, in cents: an int above 1000 is taken to be cents already
MoneyToFloat(x) ==
    IF x.t = "none" THEN 0
    ELSE IF x.t = "int" THEN (IF x.v > 1000 THEN x.v ELSE 100 * x.v)
    ELSE x.v

\* urljoin(BASE, f"/products/{handle}")
UrlOf(handle) == <<"/products/", handle>>

\* lines 180-190 and 205-215: one VariantState from one raw variant
NormalizeVariant(v) ==
    [id |-> v.id,
     title |-> IF v.title = NoneStr THEN "" ELSE v.title,
     option1 |-> v.option1,
     option2 |-> v.option2,
     option3 |-> v.option3,
     sku |-> v.sku,
     price |-> MoneyToFloat(v.price),
     available |-> v.available,
     inventory_quantity |->
        IF IsInt(v.inventory_quantity) THEN v.inventory_quantity ELSE None]

\* lines 172-174 and 197-199: a record without a handle normalises to None
LacksHandle(p) == p.handle = NoneStr

\* lines 181 and 206: int(v.get("id")) raises on a variant without an
\* integer id; the handle is looked at first
NormalizeRaises(p) ==
    /\ ~LacksHandle(p)
    /\ \E k \in DOMAIN p.variants : ~IsInt(p.variants[k].id)

\* the variants dict of a record none of whose ids is missing, keyed by id
NormalizeVariants(p) ==
    [vid \in {p.variants[k].id : k \in DOMAIN p.variants} |->
        NormalizeVariant(
            p.variants[CHOOSE k \in DOMAIN p.variants : p.variants[k].id = vid])]

\* normalize_product_from_products_json, of a record that has a handle
NormalizeProductFromProductsJson(p) ==
    [handle |-> p.handle, title |-> OrEmpty(p.title), vendor |-> p.vendor,
     url |-> UrlOf(p.handle), image |-> p.image,
     variants |-> NormalizeVariants(p)]

\* normalize_product_from_js, of a record that has a handle
NormalizeProductFromJs(p) ==
    [handle |-> p.handle, title |-> OrEmpty(p.title), vendor |-> p.vendor,
     url |-> IF p.url # <<>> THEN p.url ELSE UrlOf(p.handle),
     image |-> p.image,
     variants |-> NormalizeVariants(p)]

\* the handles the storefront lists, in feed order
Listed(cat) == SelectSeq(HandleOrder, LAMBDA h : h \in DOMAIN cat)

\* fetch_products_via_products_json: every product is on page 1; a failed
\* fetch of page 1 leaves the list empty
FetchProductsViaProductsJson(cat, feedOK) ==
    IF feedOK THEN Listed(cat) ELSE <<>>

\* crawl_collections_all: every handle is linked from page 1
CrawlCollectionsAll(cat, listingOK) ==
    IF listingOK THEN Listed(cat) ELSE <<>>

EnrichVariant_KeepAvailable(v, jsv) ==
    [v EXCEPT !.inventory_quantity =
                  IF IsInt(jsv.inventory_quantity) THEN jsv.inventory_quantity
                  ELSE @]

\* lines 365-370: refresh available and inventory_quantity from the .js data
EnrichVariant(v, jsv) ==
    [v EXCEPT !.available = jsv.available,
              !.inventory_quantity =
                  IF IsInt(jsv.inventory_quantity) THEN jsv.inventory_quantity
                  ELSE @]

\* lines 363-370: jsn.image or ps.image, then the variants the .js data has
Enrich(ps, jsn) ==
    [ps EXCEPT !.image = IF jsn.image # NoneStr THEN jsn.image ELSE @,
               !.variants =
                   [vid \in DOMAIN ps.variants |->
                       IF vid \in DOMAIN jsn.variants
                       THEN EnrichVariant(ps.variants[vid], jsn.variants[vid])
                       ELSE ps.variants[vid]]]

Put(snap, h, ps) == [k \in DOMAIN snap \cup {h} |-> IF k = h THEN ps ELSE snap[k]]

\* one is_arcteryx call of build_snapshot and what it returned
FilterCall(p) ==
    [title |-> p.title, vendor |-> p.vendor, tags |-> p.tags, handle |-> p.handle,
     result |-> IsArcteryx(p.title, p.vendor, p.tags)]

\* build_snapshot's progress: the snapshot so far, whether a call raised,
\* the is_arcteryx calls made, the handles whose .js data Strategy A got
NoProgress ==
    [snap |-> EmptySnapshot, raised |-> FALSE, filter |-> {}, detail |-> {}]

\* Strategy A, lines 353-371: the loop over the feed's products
RECURSIVE StrategyA(_, _, _, _)
StrategyA(cat, hs, detailOK, st) ==
    IF hs = <<>> \/ st.raised THEN st
    ELSE LET h == Head(hs)
             p == cat[h].feed
             js == cat[h].js
             st1 == [st EXCEPT !.filter = @ \cup {FilterCall(p)}]
         IN  IF ~IsArcteryx(p.title, p.vendor, p.tags)
             THEN StrategyA(cat, Tail(hs), detailOK, st1)
             ELSE IF LacksHandle(p)
             THEN StrategyA(cat, Tail(hs), detailOK, st1)
             ELSE IF NormalizeRaises(p)
             THEN [st1 EXCEPT !.raised = TRUE]
             ELSE IF h \notin detailOK
             THEN StrategyA(cat, Tail(hs), detailOK,
                      [st1 EXCEPT !.snap = Put(@, p.handle,
                                       NormalizeProductFromProductsJson(p))])
             ELSE IF NormalizeRaises(js)
             THEN [st1 EXCEPT !.raised = TRUE, !.detail = @ \cup {h}]
             ELSE LET ps == NormalizeProductFromProductsJson(p)
                      en == IF LacksHandle(js) THEN ps
                            ELSE Enrich(ps, NormalizeProductFromJs(js))
                  IN  StrategyA(cat, Tail(hs), detailOK,
                          [st1 EXCEPT !.snap = Put(@, p.handle, en),
                                      !.detail = @ \cup {h}])

\* Strategy B, lines 381-397: the loop over the crawled handles
RECURSIVE StrategyB(_, _, _, _)
StrategyB(cat, hs, jsOK, st) ==
    IF hs = <<>> \/ st.raised THEN st
    ELSE LET h == Head(hs)
             js == cat[h].js
             st1 == [st EXCEPT !.filter = @ \cup {FilterCall(js)}]
         IN  IF h \notin jsOK
             THEN StrategyB(cat, Tail(hs), jsOK, st)
             ELSE IF ~IsArcteryx(js.title, js.vendor, js.tags)
             THEN StrategyB(cat, Tail(hs), jsOK, st1)
             ELSE IF NormalizeRaises(js)
             THEN [st1 EXCEPT !.raised = TRUE]
             ELSE IF LacksHandle(js)
             THEN StrategyB(cat, Tail(hs), jsOK, st1)
             ELSE IF DOMAIN js.variants = {}
             THEN StrategyB(cat, Tail(hs), jsOK, st1)
             ELSE StrategyB(cat, Tail(hs), jsOK,
                      [st1 EXCEPT !.snap = Put(@, js.handle,
                                                 NormalizeProductFromJs(js))])

FallsBack_OnlyOnEmptyFeed(products, snapA) == products = <<>>

\* lines 351 and 373: Strategy B runs unless the feed gave products and
\* Strategy A put at least one of them into the snapshot
FallsBack(products, snapA) == ~(products # <<>> /\ snapA # EmptySnapshot)

\* build_snapshot: the snapshot returned (none when it raised), the
\* strategies run in order, the number of items the feed gave, the handles
\* each strategy put into the snapshot, the is_arcteryx calls, and the
\* handles whose .js data Strategy A got
BuildSnapshotResult(cat, feedOK, detailOK, listingOK, jsOK) ==
    LET products == FetchProductsViaProductsJson(cat, feedOK)
        a == IF products # <<>>
             THEN StrategyA(cat, products, detailOK, NoProgress)
             ELSE NoProgress
    IN  IF a.raised \/ ~FallsBack(products, a.snap)
        THEN [snap |-> a.snap, raised |-> a.raised, trace |-> <<"A">>,
              feed |-> Len(products), fromA |-> DOMAIN a.snap, fromB |-> {},
              filter |-> a.filter, detail |-> a.detail]
        ELSE LET b == StrategyB(cat, CrawlCollectionsAll(cat, listingOK),
                                jsOK, a)
             IN  [snap |-> b.snap, raised |-> b.raised, trace |-> <<"A", "B">>,
                  feed |-> Len(products), fromA |-> DOMAIN a.snap,
                  fromB |-> DOMAIN b.snap \ DOMAIN a.snap,
                  filter |-> b.filter, detail |-> a.detail]

(***************************************************************************)
(* Snapshot store                                                          *)
(***************************************************************************)
\* asdict(v): the JSON object of one variant
VariantToJson(v) ==
    [id |-> v.id, title |-> v.title, option1 |-> v.option1,
     option2 |-> v.option2, option3 |-> v.option3, sku |-> v.sku,
     price |-> v.price, available |-> v.available,
     inventory_quantity |-> v.inventory_quantity]

\* VariantState(**v)
VariantFromJson(j) ==
    [id |-> j.id, title |-> j.title, option1 |-> j.option1,
     option2 |-> j.option2, option3 |-> j.option3, sku |-> j.sku,
     price |-> j.price, available |-> j.available,
     inventory_quantity |-> j.inventory_quantity]

\* the JSON object save_snapshot dumps
Serialize(snap) ==
    [h \in DOMAIN snap |->
        [handle |-> snap[h].handle, title |-> snap[h].title,
         vendor |-> snap[h].vendor, url |-> snap[h].url,
         image |-> snap[h].image,
         variants |-> [vid \in DOMAIN snap[h].variants |->
                          VariantToJson(snap[h].variants[vid])]]]

Deserialize_ImageDropped(raw) ==
    [h \in DOMAIN raw |->
        [handle |-> raw[h].handle, title |-> raw[h].title,
         vendor |-> raw[h].vendor, url |-> raw[h].url, image |-> NoneStr,
         variants |-> [vid \in DOMAIN raw[h].variants |->
                          VariantFromJson(raw[h].variants[vid])]]]

\* the snapshot load_snapshot rebuilds from the JSON object
Deserialize(raw) ==
    [h \in DOMAIN raw |->
        [handle |-> raw[h].handle, title |-> raw[h].title,
         vendor |-> raw[h].vendor, url |-> raw[h].url, image |-> raw[h].image,
         variants |-> [vid \in DOMAIN raw[h].variants |->
                          VariantFromJson(raw[h].variants[vid])]]]

AbsentFile == [state |-> "absent", data |-> EmptySnapshot]
CorruptFile == [state |-> "corrupt", data |-> EmptySnapshot]
OkFile(raw) == [state |-> "ok", data |-> raw]

\* load_snapshot never raises: a missing file returns before the open, and
\* the read sits in try/except Exception
LoadRaises(f) == FALSE

\* load_snapshot: no file, or any exception while reading it, gives {}
LoadSnapshotResult(f) ==
    IF f.state = "absent" THEN EmptySnapshot
    ELSE IF f.state = "corrupt" THEN EmptySnapshot
    ELSE Deserialize(f.data)

SaveOutcomes == {"written", "open_failed", "dump_failed"}

SaveRaises_NoCatch(outcome) == outcome # "written"

\* save_snapshot never raises: its whole body sits in try/except Exception
SaveRaises(outcome) == FALSE

\* the file after save_snapshot: written, untouched because open() failed,
\* or truncated because the dump failed after open() emptied the file
SaveSnapshotResult(f, snap, outcome) ==
    CASE outcome = "written" -> OkFile(Serialize(snap))
      [] outcome = "open_failed" -> f
      [] outcome = "dump_failed" -> CorruptFile

(***************************************************************************)
(* HTTP helpers: get_json and get_text                                     *)
(***************************************************************************)
\* the default of the `retries` parameter
Retries == 3

\* what one SESSION.get can give: an exception, or a response with a
\* status, a content type, and a body that r.json() can or cannot parse
Timeout == [raised |-> TRUE, status |-> None, ctype |-> NoneStr, parses |-> FALSE]

Responses ==
    {Timeout}
    \cup [raised : {FALSE}, status : {403, 404, 500}, ctype : {"html"},
          parses : {FALSE}]
    \cup [raised : {FALSE}, status : {200}, ctype : {"json", "html"},
          parses : BOOLEAN]

Attempt_NoFastFail(fn, jsUrl, r) ==
    IF r.raised THEN "again"
    ELSE IF r.status = 200
    THEN IF fn = "get_text" THEN "body"
         ELSE IF r.ctype = "json" \/ jsUrl
         THEN (IF r.parses THEN "body" ELSE "again")
         ELSE "None"
    ELSE "again"

\* one pass of the loop body, lines 88-101 and 107-116: return the body,
\* return None, or go round again; r.json() is inside the try
Attempt(fn, jsUrl, r) ==
    IF r.raised THEN "again"
    ELSE IF r.status = 200
    THEN IF fn = "get_text" THEN "body"
         ELSE IF r.ctype = "json" \/ jsUrl
         THEN (IF r.parses THEN "body" ELSE "again")
         ELSE "None"
    ELSE IF r.status \in {403, 404} THEN "None"
    ELSE "again"

\* no call in progress
IdleFetch ==
    [fn |-> "none", jsUrl |-> FALSE, state |-> "idle", result |-> "None",
     log |-> <<>>]

\* a call of fn on a url that ends in .js or .json, or does not
StartFetch(fn, jsUrl) ==
    [fn |-> fn, jsUrl |-> jsUrl, state |-> "running", result |-> "None",
     log |-> <<>>]

\* one pass of `for i in range(retries)`, and the return after the loop
FetchAttempt ==
    /\ fetch.state = "running"
    /\ Len(fetch.log) < Retries
    /\ \E r \in Responses :
        LET a == Attempt(fetch.fn, fetch.jsUrl, r)
            sent == Len(fetch.log) + 1
        IN  fetch' = [fetch EXCEPT
                !.log = Append(@, r),
                !.state = IF a = "again" /\ sent < Retries
                          THEN "running" ELSE "returned",
                !.result = IF a = "body" THEN "body" ELSE "None"]
    /\ UNCHANGED <<catalog, file, pc, old, new, events, calls, acq, saved,
                   runs, changes, notified, sink>>

(***************************************************************************)
(* The run: main()                                                         *)
(***************************************************************************)
Range(seq) == {seq[i] : i \in 1..Len(seq)}

NoAcq ==
    [snap |-> EmptySnapshot, raised |-> FALSE, trace |-> <<>>, feed |-> 0,
     fromA |-> {}, fromB |-> {}, filter |-> {}, detail |-> {}]

EmptyCatalog == [h \in {} |-> None]

\* line 454: a run starts and reads the prior snapshot
LoadSnapshot ==
    /\ pc \in {"idle", "crashed"}
    /\ runs < MaxRuns
    /\ runs' = runs + 1
    /\ old' = IF LoadRaises(file) THEN EmptySnapshot ELSE LoadSnapshotResult(file)
    /\ new' = EmptySnapshot
    /\ events' = <<>>
    /\ calls' = <<"load_snapshot">>
    /\ acq' = NoAcq
    /\ saved' = <<>>
    /\ pc' = IF LoadRaises(file) THEN "crashed" ELSE "build"
    /\ UNCHANGED <<catalog, file, changes, notified, sink, fetch>>

\* line 455: the whole of build_snapshot; each fetch may fail, and an
\* exception ends the run
BuildSnapshot ==
    /\ pc = "build"
    /\ \E feedOK \in BOOLEAN, listingOK \in BOOLEAN,
          detailOK \in SUBSET Handles, jsOK \in SUBSET Handles :
            acq' = BuildSnapshotResult(catalog, feedOK, detailOK, listingOK, jsOK)
    /\ new' = IF acq'.raised THEN EmptySnapshot ELSE acq'.snap
    /\ calls' = Append(calls, "build_snapshot")
    /\ pc' = IF acq'.raised THEN "crashed" ELSE "diff"
    /\ UNCHANGED <<catalog, file, old, events, saved, runs, changes, notified,
                   sink, fetch>>

\* line 457: the whole of diff_and_report; an exception ends the run
DiffAndReport ==
    /\ pc = "diff"
    /\ LET r == DiffAndReportResult(old, new, sink)
       IN  /\ events' = r.events
           /\ pc' = IF r.raised THEN "crashed" ELSE "save"
           /\ notified' = notified \cup Range(r.events)
    /\ calls' = Append(calls, "diff_and_report")
    /\ UNCHANGED <<catalog, file, old, new, acq, saved, runs, changes, sink,
                   fetch>>

\* line 460: save_snapshot(new); a failed write is logged and swallowed
SaveSnapshot ==
    /\ pc = "save"
    /\ \E outcome \in SaveOutcomes :
        /\ file' = SaveSnapshotResult(file, new, outcome)
        /\ pc' = IF SaveRaises(outcome) THEN "crashed" ELSE "idle"
    /\ saved' = Append(saved, new)
    /\ calls' = Append(calls, "save_snapshot")
    /\ UNCHANGED <<catalog, old, new, events, acq, runs, changes, notified,
                   sink, fetch>>

(***************************************************************************)
(* The storefront changes between runs                                     *)
(***************************************************************************)
DefaultVariant(vid) ==
    [id |-> vid, title |-> "a", option1 |-> "a", option2 |-> NoneStr,
     option3 |-> NoneStr, sku |-> "a", price |-> [t |-> "str", v |-> 10000],
     available |-> FALSE, inventory_quantity |-> None]

RawProduct(h, vendor, variants) ==
    [handle |-> h, title |-> TitleShell, vendor |-> vendor, tags |-> <<>>,
     image |-> "a", url |-> <<>>, variants |-> variants]

NoVariants == [vid \in {} |-> None]

\* both endpoints serve the record p
Served(p) == [feed |-> p, js |-> p]

\* a change of product h: events about h no longer count as already sent
ChangedTo(h, cat) ==
    /\ pc \in {"idle", "crashed"}
    /\ changes < MaxChanges
    /\ changes' = changes + 1
    /\ catalog' = cat
    /\ notified' = {e \in notified : e.handle # h}
    /\ UNCHANGED <<file, pc, old, new, events, calls, acq, saved, runs, sink,
                   fetch>>

Changed(h, p) == ChangedTo(h, Put(catalog, h, Served(p)))

AddProduct ==
    \E h \in Handles, vendor \in Vendors, withVariant \in BOOLEAN :
        /\ h \notin DOMAIN catalog
        /\ Changed(h, RawProduct(h, vendor,
                IF withVariant THEN (1 :> DefaultVariant(1)) ELSE NoVariants))

RemoveProduct ==
    \E h \in DOMAIN catalog :
        ChangedTo(h, [k \in DOMAIN catalog \ {h} |-> catalog[k]])

AddVariant ==
    \E h \in DOMAIN catalog, vid \in Vids :
        /\ vid \notin DOMAIN catalog[h].feed.variants
        /\ Changed(h, [catalog[h].feed EXCEPT
                !.variants = (vid :> DefaultVariant(vid)) @@ @])

RemoveVariant ==
    \E h \in DOMAIN catalog :
        /\ \E vid \in DOMAIN catalog[h].feed.variants :
            Changed(h, [catalog[h].feed EXCEPT
                !.variants = [k \in DOMAIN @ \ {vid} |-> @[k]]])

ChangeVariant ==
    \E h \in DOMAIN catalog :
        /\ \E vid \in DOMAIN catalog[h].feed.variants :
            \/ \E rp \in RawPrices \ {catalog[h].feed.variants[vid].price} :
                Changed(h, [catalog[h].feed EXCEPT !.variants[vid].price = rp])
            \/ Changed(h, [catalog[h].feed EXCEPT
                    !.variants[vid].available = ~@])
            \/ \E q \in Qtys \ {catalog[h].feed.variants[vid].inventory_quantity} :
                Changed(h, [catalog[h].feed EXCEPT
                    !.variants[vid].inventory_quantity = q])

StoreChange ==
    AddProduct \/ RemoveProduct \/ AddVariant \/ RemoveVariant \/ ChangeVariant

(***************************************************************************)
(* Specifications                                                          *)
(***************************************************************************)
Init ==
    /\ catalog = EmptyCatalog
    /\ file = AbsentFile
    /\ pc = "idle"
    /\ old = EmptySnapshot
    /\ new = EmptySnapshot
    /\ events = <<>>
    /\ calls = <<>>
    /\ acq = NoAcq
    /\ saved = <<>>
    /\ runs = 0
    /\ changes = 0
    /\ notified = {}
    /\ sink = "ok"
    /\ fetch = IdleFetch

Next ==
    \/ LoadSnapshot
    \/ BuildSnapshot
    \/ DiffAndReport
    \/ SaveSnapshot
    \/ StoreChange

Spec == Init /\ [][Next]_vars

(***************************************************************************)
(* diff_and_report on every pair of snapshots of a bounded universe: the   *)
(* first handle carries any product, the other handles carry a product     *)
(* without variants or with one variant                                    *)
(***************************************************************************)
Variant(vid, price, available, qty) ==
    [id |-> vid, title |-> "a", option1 |-> "a", option2 |-> NoneStr,
     option3 |-> NoneStr, sku |-> "a", price |-> price,
     available |-> available, inventory_quantity |-> qty]

Product(h, variants) ==
    [handle |-> h, title |-> TitleShell, vendor |-> VendorArcteryx,
     url |-> UrlOf(h), image |-> "a", variants |-> variants]

CoreVariants(vid) ==
    {Variant(vid, p, a, q) : p \in Prices, a \in BOOLEAN, q \in Qtys}

\* the maps that carry under each id a variant of that id
KeyedById(V) == {m \in VariantMaps(V) : \A vid \in DOMAIN m : m[vid].id = vid}

CoreVariantMaps == KeyedById(UNION {CoreVariants(vid) : vid \in Vids})

OneVariant == Variant(1, 10000, TRUE, None)

ReducedProducts(h) == {Product(h, NoVariants), Product(h, (1 :> OneVariant))}

DiffProducts(h) ==
    IF h = Head(HandleOrder) THEN {Product(h, m) : m \in CoreVariantMaps}
    ELSE ReducedProducts(h)

\* the dicts that carry under each of some of the handles hs one of the
\* entries P[h]
RECURSIVE DictsOf(_, _)
DictsOf(P, hs) ==
    IF hs = <<>> THEN {EmptySnapshot}
    ELSE LET rest == DictsOf(P, Tail(hs))
         IN  rest \cup {Put(s, Head(hs), p) : s \in rest, p \in P[Head(hs)]}

DiffSnapshots == DictsOf([h \in Handles |-> DiffProducts(h)], HandleOrder)

InitDiff ==
    /\ old \in DiffSnapshots
    /\ new \in DiffSnapshots
    /\ catalog = EmptyCatalog
    /\ file = IF old = EmptySnapshot THEN AbsentFile ELSE OkFile(Serialize(old))
    /\ pc = "diff"
    /\ events = <<>>
    /\ calls = <<"load_snapshot", "build_snapshot">>
    /\ acq = NoAcq
    /\ saved = <<>>
    /\ runs = 1
    /\ changes = 0
    /\ notified = {}
    /\ sink = "ok"
    /\ fetch = IdleFetch

NextDiff ==
    \/ DiffAndReport
    \/ SaveSnapshot

SpecDiff == InitDiff /\ [][NextDiff]_vars

(***************************************************************************)
(* The same two steps with the webhook in every condition, on the          *)
(* snapshots of that universe whose variants carry no quantity             *)
(***************************************************************************)
NotifySnapshots ==
    {s \in DiffSnapshots :
        \A h \in DOMAIN s : \A vid \in DOMAIN s[h].variants :
            s[h].variants[vid].inventory_quantity = None}

InitNotify ==
    /\ old \in NotifySnapshots
    /\ new \in NotifySnapshots
    /\ sink \in Sinks
    /\ catalog = EmptyCatalog
    /\ file = IF old = EmptySnapshot THEN AbsentFile ELSE OkFile(Serialize(old))
    /\ pc = "diff"
    /\ events = <<>>
    /\ calls = <<"load_snapshot", "build_snapshot">>
    /\ acq = NoAcq
    /\ saved = <<>>
    /\ runs = 1
    /\ changes = 0
    /\ notified = {}
    /\ fetch = IdleFetch

SpecNotify == InitNotify /\ [][NextDiff]_vars

(***************************************************************************)
(* save_snapshot of a snapshot that varies in every field, and the         *)
(* load_snapshot of the next run                                           *)
(***************************************************************************)
StoreVariants(vid) ==
    [id : {vid}, title : {"", "a"}, option1 : {NoneStr, "a"},
     option2 : {NoneStr, "b"}, option3 : {NoneStr}, sku : {NoneStr, "a"},
     price : Prices, available : BOOLEAN, inventory_quantity : Qtys]

StoreVariantMaps ==
    {NoVariants}
    \cup {(1 :> v) : v \in StoreVariants(1)}
    \cup {(1 :> v) @@ (2 :> OneVariant) : v \in StoreVariants(1)}

StoreProducts(h) ==
    IF h = Head(HandleOrder)
    THEN [handle : {h}, title : {<<>>, TitleShell},
          vendor : {NoText, VendorArcteryx}, url : {UrlOf(h)},
          image : {NoneStr, "a"}, variants : StoreVariantMaps]
    ELSE {Product(h, (1 :> OneVariant))}

StoreSnapshots == DictsOf([h \in Handles |-> StoreProducts(h)], HandleOrder)

InitStore ==
    /\ new \in StoreSnapshots
    /\ file \in {AbsentFile, CorruptFile}
    /\ catalog = EmptyCatalog
    /\ pc = "save"
    /\ old = EmptySnapshot
    /\ events = <<>>
    /\ calls = <<"load_snapshot", "build_snapshot", "diff_and_report">>
    /\ acq = NoAcq
    /\ saved = <<>>
    /\ runs = 1
    /\ changes = 0
    /\ notified = {}
    /\ sink = "ok"
    /\ fetch = IdleFetch

NextStore ==
    \/ SaveSnapshot
    \/ LoadSnapshot

SpecStore == InitStore /\ [][NextStore]_vars

(***************************************************************************)
(* A first run on a storefront whose endpoints disagree, and whose         *)
(* records may lack a handle or a variant id                               *)
(***************************************************************************)
\* a variant dict without the id key
VariantWithoutId == [DefaultVariant(1) EXCEPT !.id = None]

FeedVariants ==
    {VariantWithoutId}
    \cup {[DefaultVariant(1) EXCEPT !.available = a, !.inventory_quantity = q] :
            a \in BOOLEAN, q \in Qtys}

\* the .js endpoint shows another title and price than the feed
JsVariant(vid, a, q) ==
    [DefaultVariant(vid) EXCEPT !.title = "b", !.sku = "b",
                                !.price = [t |-> "str", v |-> 10999],
                                !.available = a, !.inventory_quantity = q]

JsVariantMaps ==
    LET first == {NoVariants, (1 :> [JsVariant(1, TRUE, 0) EXCEPT !.id = None])}
                 \cup {(1 :> JsVariant(1, a, q)) : a \in BOOLEAN, q \in Qtys}
        second == {NoVariants, (2 :> JsVariant(2, TRUE, 0))}
    IN  {m1 @@ m2 : m1 \in first, m2 \in second}

FeedRecords(h) ==
    [handle : {h, NoneStr}, title : {TitleShell}, vendor : {VendorArcteryx},
     tags : {<<>>}, image : {NoneStr, "a"}, url : {<<>>},
     variants : {(1 :> fv) @@ (2 :> DefaultVariant(2)) : fv \in FeedVariants}]

JsRecords(h) ==
    [handle : {h, NoneStr}, title : {TitleArcteryxBeta}, vendor : {VendorArcteryx},
     tags : {<<>>}, image : {NoneStr, "b"}, url : {<<"/p/", h>>},
     variants : JsVariantMaps]

\* the texts the brand filter is tried on
BrandCases ==
    {<<TitleShell, VendorArcteryxUpper, <<>> >>,
     <<TitleArcteryxBeta, VendorPatagonia, <<>> >>,
     <<TitleShell, VendorPatagonia, <<TagOutdoor>> >>,
     <<TitleShell, VendorPatagonia, <<TagOutdoor, TagArcteryx>> >>,
     <<TitleShell, VendorPatagonia, <<VendorArcteryx>> >>,
     <<NoText, NoText, <<>> >>}

BrandRecords(h) ==
    {[RawProduct(h, c[2], (1 :> DefaultVariant(1))) EXCEPT
        !.title = c[1], !.tags = c[3]] : c \in BrandCases}

AcquireEntries(h) ==
    IF h = Head(HandleOrder)
    THEN [feed : FeedRecords(h), js : JsRecords(h)]
    ELSE {Served(p) : p \in BrandRecords(h)}

\* the first handle is always on sale
AcquireCatalogs ==
    {c \in DictsOf([h \in Handles |-> AcquireEntries(h)], HandleOrder) :
        Head(HandleOrder) \in DOMAIN c}

InitAcquire ==
    /\ catalog \in AcquireCatalogs
    /\ file = AbsentFile
    /\ pc = "build"
    /\ old = EmptySnapshot
    /\ new = EmptySnapshot
    /\ events = <<>>
    /\ calls = <<"load_snapshot">>
    /\ acq = NoAcq
    /\ saved = <<>>
    /\ runs = 1
    /\ changes = 0
    /\ notified = {}
    /\ sink = "ok"
    /\ fetch = IdleFetch

NextAcquire ==
    \/ BuildSnapshot
    \/ DiffAndReport
    \/ SaveSnapshot

SpecAcquire == InitAcquire /\ [][NextAcquire]_vars

(***************************************************************************)
(* One get_json or get_text call against every sequence of responses       *)
(***************************************************************************)
InitFetch ==
    /\ fetch \in {StartFetch(fn, jsUrl) :
                    fn \in {"get_json", "get_text"}, jsUrl \in BOOLEAN}
    /\ catalog = EmptyCatalog
    /\ file = AbsentFile
    /\ pc = "build"
    /\ old = EmptySnapshot
    /\ new = EmptySnapshot
    /\ events = <<>>
    /\ calls = <<"load_snapshot">>
    /\ acq = NoAcq
    /\ saved = <<>>
    /\ runs = 1
    /\ changes = 0
    /\ notified = {}
    /\ sink = "ok"

NextFetch == FetchAttempt

SpecFetch == InitFetch /\ [][NextFetch]_vars

(***************************************************************************)
(* Properties                                                              *)
(***************************************************************************)
\* build_snapshot has returned
BuildDone == Len(calls) >= 2 /\ ~acq.raised
DiffDone == Len(calls) >= 3
RunEnded == runs > 0 /\ pc \in {"idle", "crashed"}

Count(seq, Test(_)) == Cardinality({i \in 1..Len(seq) : Test(seq[i])})

\* the events of one kind about one variant (vid = None: about the product)
About(kind, h, vid) ==
    Count(events, LAMBDA e : e.kind = kind /\ e.handle = h /\ e.vid = vid)

InBoth == DOMAIN old \cap DOMAIN new
VidsInBoth(h) == DOMAIN old[h].variants \cap DOMAIN new[h].variants

\* C1: once a run has sent the event for a change, no later run sends it
\* again while the storefront's data for that product stays unchanged
C1_NotifiedOnce ==
    [][pc = "diff" => Range(events') \cap notified = {}]_vars

\* C2: a finished run has called load_snapshot once, before build_snapshot,
\* and save_snapshot once, after diff_and_report, with the snapshot it built
C2_LoadOnceSaveOnce ==
    RunEnded =>
        /\ calls = <<"load_snapshot", "build_snapshot", "diff_and_report",
                     "save_snapshot">>
        /\ saved = <<new>>

\* C3: no snapshot returned by build_snapshot, and no snapshot written to
\* the file, holds a product without variants
C3_NoProductWithoutVariants ==
    /\ \A h \in DOMAIN new : DOMAIN new[h].variants # {}
    /\ \A h \in DOMAIN file.data : DOMAIN file.data[h].variants # {}

\* C4: diff_and_report(S, S) sends no notification
C4_SelfDiffSilent ==
    (DiffDone /\ old = new) => (events = <<>> /\ pc # "crashed")

C4_Witness ==
    /\ DiffDone /\ old = new
    /\ \E h \in DOMAIN new :
        /\ DOMAIN new[h].variants = Vids
        /\ \E vid \in Vids : /\ new[h].variants[vid].available
                             /\ new[h].variants[vid].inventory_quantity > 0

\* C5: diff_and_report({}, S) sends exactly one NewProduct event per handle
\* of S, and nothing else
C5_FirstRunOneNewProductPerHandle ==
    (DiffDone /\ old = EmptySnapshot) =>
        /\ \A h \in DOMAIN new : About("NewProduct", h, None) = 1
        /\ Len(events) = Cardinality(DOMAIN new)

\* C6: build_snapshot runs Strategy A first, runs Strategy B exactly when
\* Strategy A put no product into the snapshot, and returns the products of
\* one strategy only
C6_StrategyBOnlyAfterEmptyA ==
    BuildDone =>
        /\ acq.trace \in {<<"A">>, <<"A", "B">>}
        /\ (acq.trace = <<"A", "B">>) <=> (acq.fromA = {})
        /\ acq.fromA = {} \/ acq.fromB = {}
        /\ DOMAIN new = acq.fromA \cup acq.fromB

\* the feed returned items, all failed the brand filter, Strategy B ran
C6_Witness ==
    /\ BuildDone
    /\ acq.feed > 0
    /\ acq.fromA = {}
    /\ acq.trace = <<"A", "B">>

\* C7: for a variant in both snapshots, one PriceChange event with the old
\* and the new price when the prices differ, none when they are equal
C7_OnePriceChangePerChangedPrice ==
    DiffDone =>
        \A h \in InBoth : \A vid \in VidsInBoth(h) :
            LET vold == old[h].variants[vid]
                vnew == new[h].variants[vid]
            IN  /\ About("PriceChange", h, vid) =
                        (IF vold.price # vnew.price THEN 1 ELSE 0)
                /\ \A i \in 1..Len(events) :
                    (/\ events[i].kind = "PriceChange"
                     /\ events[i].handle = h /\ events[i].vid = vid)
                    => (/\ events[i].oldPrice = vold.price
                        /\ events[i].newPrice = vnew.price)

\* C8: for a variant in both snapshots, a Restock event iff it was
\* unavailable and is available, and, independently, a QuantityIncrease
\* event iff both quantities are integers and the new one is larger
C8_RestockAndQuantityIncrease ==
    DiffDone =>
        \A h \in InBoth : \A vid \in VidsInBoth(h) :
            LET vold == old[h].variants[vid]
                vnew == new[h].variants[vid]
            IN  /\ About("Restock", h, vid) =
                        (IF ~vold.available /\ vnew.available THEN 1 ELSE 0)
                /\ About("QuantityIncrease", h, vid) =
                        (IF /\ vold.inventory_quantity # None
                            /\ vnew.inventory_quantity # None
                            /\ vnew.inventory_quantity > vold.inventory_quantity
                         THEN 1 ELSE 0)

\* new differs from old only by vanished products or variants, smaller
\* quantities and available -> unavailable transitions
OnlySilentChanges ==
    /\ DOMAIN new \subseteq DOMAIN old
    /\ \A h \in DOMAIN new :
        /\ DOMAIN new[h].variants \subseteq DOMAIN old[h].variants
        /\ \A vid \in DOMAIN new[h].variants :
            LET vold == old[h].variants[vid]
                vnew == new[h].variants[vid]
            IN  /\ vnew.price = vold.price
                /\ vnew.available => vold.available
                /\ \/ vnew.inventory_quantity = vold.inventory_quantity
                   \/ /\ vold.inventory_quantity # None
                      /\ vnew.inventory_quantity # None
                      /\ vnew.inventory_quantity < vold.inventory_quantity

\* C9: when new differs from old only by such changes, diff_and_report
\* sends nothing, and the snapshot handed to save_snapshot has none of the
\* vanished products or variants
C9_DisappearanceAndDecreaseSilent ==
    (DiffDone /\ OnlySilentChanges) =>
        /\ events = <<>>
        /\ pc # "crashed"
        /\ pc = "idle" =>
            /\ Len(saved) = 1
            /\ DOMAIN saved[1] = DOMAIN new
            /\ \A h \in DOMAIN new :
                DOMAIN saved[1][h].variants = DOMAIN new[h].variants

C9_Witness ==
    /\ DiffDone /\ OnlySilentChanges /\ pc = "idle"
    /\ DOMAIN old \ DOMAIN new # {}
    /\ \E h \in DOMAIN new :
        /\ DOMAIN old[h].variants \ DOMAIN new[h].variants # {}
        /\ \E vid \in DOMAIN new[h].variants :
            /\ old[h].variants[vid].available
            /\ ~new[h].variants[vid].available
            /\ old[h].variants[vid].inventory_quantity # None
            /\ new[h].variants[vid].inventory_quantity # None
            /\ new[h].variants[vid].inventory_quantity
                    < old[h].variants[vid].inventory_quantity

\* the positions in events of the events of the given kinds about product h
Positions(h, kinds) ==
    {i \in 1..Len(events) : events[i].handle = h /\ events[i].kind \in kinds}

\* C10: for a product in both snapshots, one NewVariant event per variant
\* id that only new has, none for the ids old has, and every NewVariant
\* event of the product before its PriceChange, Restock and
\* QuantityIncrease events
C10_OneNewVariantPerNewId ==
    DiffDone =>
        \A h \in InBoth :
            /\ \A vid \in DOMAIN new[h].variants :
                About("NewVariant", h, vid) =
                    (IF vid \in DOMAIN old[h].variants THEN 0 ELSE 1)
            /\ \A i \in Positions(h, {"NewVariant"}) :
               \A j \in Positions(h, {"PriceChange", "Restock",
                                      "QuantityIncrease"}) : i < j

\* C11: the snapshot load_snapshot returns from a file that save_snapshot
\* wrote without failure equals the saved snapshot in every product and
\* variant field and in its handle and variant-id keys
C11_SaveThenLoadRoundTrip ==
    [][(pc = "idle" /\ pc' = "build" /\ file.state = "ok")
            => old' = saved[1]]_vars

\* a loaded snapshot with two products, a product without vendor, and a
\* product with two variants one of which has no quantity
C11_Witness ==
    /\ pc = "build" /\ runs = 2 /\ file.state = "ok"
    /\ DOMAIN old = Handles
    /\ \E h \in DOMAIN old :
        /\ old[h].vendor = NoText
        /\ old[h].image # NoneStr
        /\ DOMAIN old[h].variants = Vids
        /\ old[h].variants[1].inventory_quantity = None
        /\ old[h].variants[1].option2 # NoneStr

\* C12: load_snapshot of an absent or unreadable file returns the empty
\* snapshot and the run goes on to build_snapshot; whatever happens inside
\* save_snapshot, main runs to completion
C12_StoreFailuresNeverAbort ==
    [][/\ (runs' = runs + 1 /\ file.state # "ok")
            => (pc' = "build" /\ old' = EmptySnapshot)
       /\ pc = "save" => pc' = "idle"]_vars

\* the save of the first run failed and the second run has loaded the
\* unreadable file
C12_Witness ==
    /\ runs = 2 /\ pc = "build"
    /\ file.state = "corrupt"
    /\ old = EmptySnapshot

\* a raw record that lacks a handle, or has a variant without an integer id
Malformed(p) ==
    \/ p.handle = NoneStr
    \/ \E k \in DOMAIN p.variants : p.variants[k].id = None

\* C13: build_snapshot never raises, and a malformed raw record yields no
\* product in the snapshot and no event
C13_MalformedRecordsSkipped ==
    /\ Len(calls) >= 2 => ~acq.raised
    /\ BuildDone =>
        \A h \in DOMAIN catalog :
            (/\ Malformed(catalog[h].feed)
             /\ Malformed(catalog[h].js))
            => (h \notin DOMAIN new /\ \A i \in 1..Len(events) : events[i].handle # h)

\* the text contains, case-insensitively, one of the two spellings
MentionsBrand(text) ==
    Contains(Lower(text), ArcApostrophe) \/ Contains(Lower(text), ArcPlain)

\* C14: is_arcteryx returns true iff the vendor, the title or a tag
\* contains one of the two spellings, and every product of the snapshot
\* comes from a record for which it returned true
C14_FilterMatchesEitherSpelling ==
    /\ \A c \in acq.filter :
        c.result <=> (\/ MentionsBrand(OrEmpty(c.vendor))
                      \/ MentionsBrand(OrEmpty(c.title))
                      \/ \E i \in 1..Len(c.tags) : MentionsBrand(c.tags[i]))
    /\ \A h \in DOMAIN new :
        \E c \in acq.filter : c.result /\ c.handle = h

\* C15: whatever the webhook does with a message, diff_and_report makes
\* every send_embed call in order, raises only where desc_new raises, and
\* main then saves the new snapshot
C15_DeliveryFailureKeepsControlFlow ==
    /\ DiffDone =>
        /\ events = DiffAndReportCalls(old, new).events
        /\ (pc = "crashed") <=> DiffAndReportCalls(old, new).raised
    /\ pc = "idle" => saved = <<new>>

\* every post failed, two notifications were dispatched, the run saved
C15_Witness ==
    /\ sink \in {"exception", "http_error"}
    /\ Len(events) >= 2
    /\ pc = "idle" /\ saved = <<new>>

LastResponse == fetch.log[Len(fetch.log)]

\* the response is a 200, a 403 or a 404
Final(r) == ~r.raised /\ r.status \in {200, 403, 404}

\* C16 as stated: at most `retries` requests; the call stops at the first
\* 200, 403 or 404 response, giving None for a 403 or 404, and otherwise
\* goes on until the budget is used up and gives None
C16_StopsAtFirst200 ==
    /\ Len(fetch.log) <= Retries
    /\ fetch.state = "running" => Len(fetch.log) < Retries
    /\ \A i \in 1..(Len(fetch.log) - 1) : ~Final(fetch.log[i])
    /\ fetch.state = "returned" =>
        /\ Final(LastResponse) \/ Len(fetch.log) = Retries
        /\ fetch.result = "body" => (~LastResponse.raised /\ LastResponse.status = 200)

\* r.json() is called on the response and raises
UnparsedBody(fn, jsUrl, r) ==
    /\ fn = "get_json" /\ ~r.raised /\ r.status = 200
    /\ r.ctype = "json" \/ jsUrl
    /\ ~r.parses

\* C16 amended: as stated, except that get_json goes on after a 200
\* response whose body it tries to parse and cannot
C16_StopsAtFirstUsable200 ==
    /\ Len(fetch.log) <= Retries
    /\ fetch.state = "running" => Len(fetch.log) < Retries
    /\ \A i \in 1..(Len(fetch.log) - 1) :
        Final(fetch.log[i]) => UnparsedBody(fetch.fn, fetch.jsUrl, fetch.log[i])
    /\ fetch.state = "returned" =>
        /\ \/ Final(LastResponse)
              /\ ~UnparsedBody(fetch.fn, fetch.jsUrl, LastResponse)
           \/ Len(fetch.log) = Retries
        /\ fetch.result = "body" =>
            /\ ~LastResponse.raised /\ LastResponse.status = 200
            /\ ~UnparsedBody(fetch.fn, fetch.jsUrl, LastResponse)

\* get_json got a 200 it could not parse, asked again and returned the body
C16_Witness ==
    /\ fetch.fn = "get_json" /\ fetch.state = "returned"
    /\ Len(fetch.log) = 2
    /\ UnparsedBody(fetch.fn, fetch.jsUrl, fetch.log[1])
    /\ fetch.result = "body"

\* the products Strategy A stored after its detail fetch returned data
Enriched == IF BuildDone THEN acq.detail \cap acq.fromA ELSE {}

\* the ids the detail payload lists
LiveIds(js) == {js.variants[k].id : k \in DOMAIN js.variants}

\* the detail payload's variant of that id, normalised
Live(js, vid) ==
    NormalizeVariant(
        js.variants[CHOOSE k \in DOMAIN js.variants : js.variants[k].id = vid])

\* the feed's variant of that id, normalised
Fed(p, vid) ==
    NormalizeVariant(
        p.variants[CHOOSE k \in DOMAIN p.variants : p.variants[k].id = vid])

\* C17 as stated: after a successful detail fetch every variant of the
\* stored product has the detail payload's available and
\* inventory_quantity, and the product has the detail payload's image
C17_EnrichedEqualsLive ==
    \A h \in Enriched :
        /\ new[h].image = catalog[h].js.image
        /\ \A vid \in DOMAIN new[h].variants :
            /\ vid \in LiveIds(catalog[h].js)
            /\ new[h].variants[vid].available = Live(catalog[h].js, vid).available
            /\ new[h].variants[vid].inventory_quantity
                    = Live(catalog[h].js, vid).inventory_quantity

\* C17 amended: when the detail payload has a handle, every variant it
\* lists has the payload's available, and the payload's quantity when that
\* is an integer and the feed's otherwise; the image is the payload's when
\* it has one and the feed's otherwise
C17_EnrichedFromLiveWhereGiven ==
    \A h \in Enriched :
        LET js == catalog[h].js
            p == catalog[h].feed
        IN  ~LacksHandle(js) =>
            /\ new[h].image = IF js.image # NoneStr THEN js.image ELSE p.image
            /\ \A vid \in DOMAIN new[h].variants \cap LiveIds(js) :
                /\ new[h].variants[vid].available = Live(js, vid).available
                /\ new[h].variants[vid].inventory_quantity =
                        IF Live(js, vid).inventory_quantity # None
                        THEN Live(js, vid).inventory_quantity
                        ELSE Fed(p, vid).inventory_quantity

\* a stored product whose detail payload has no image and lists a variant
\* without quantity whose availability differs from the feed's
C17_Witness ==
    \E h \in Enriched :
        LET js == catalog[h].js
            p == catalog[h].feed
        IN  /\ ~LacksHandle(js)
            /\ js.image = NoneStr /\ p.image # NoneStr
            /\ \E vid \in DOMAIN new[h].variants \cap LiveIds(js) :
                /\ Live(js, vid).inventory_quantity = None
                /\ Fed(p, vid).inventory_quantity # None
                /\ Live(js, vid).available # Fed(p, vid).available

\* the feed records Strategy A has to store: the feed was fetched, the
\* record passes the brand filter and is well formed
Storable ==
    {h \in DOMAIN catalog :
        /\ Len(calls) >= 2 /\ acq.feed > 0
        /\ IsArcteryx(catalog[h].feed.title, catalog[h].feed.vendor,
                      catalog[h].feed.tags)
        /\ ~Malformed(catalog[h].feed)}

\* C18: Strategy A stores each such record with the feed's handle, title,
\* vendor, url and variant ids and each variant's title, options, sku and
\* price; when the detail fetch fails or its payload does not normalise,
\* the product is stored exactly as the feed gives it
C18_EnrichmentKeepsFeedValues ==
    \A h \in Storable :
        LET ps == NormalizeProductFromProductsJson(catalog[h].feed)
        IN  /\ h \in DOMAIN new
            /\ new[h].handle = ps.handle /\ new[h].title = ps.title
            /\ new[h].vendor = ps.vendor /\ new[h].url = ps.url
            /\ DOMAIN new[h].variants = DOMAIN ps.variants
            /\ \A vid \in DOMAIN ps.variants :
                [new[h].variants[vid] EXCEPT
                    !.available = ps.variants[vid].available,
                    !.inventory_quantity = ps.variants[vid].inventory_quantity]
                = ps.variants[vid]
            /\ (h \notin acq.detail \/ Malformed(catalog[h].js)) => new[h] = ps

\* C19 as stated: for a product only new has, with several variants, one
\* NewProduct event and one NewVariant event for each of its variants
C19_NewProductAlsoNewVariants ==
    DiffDone =>
        \A h \in DOMAIN new \ DOMAIN old :
            Cardinality(DOMAIN new[h].variants) >= 2 =>
                /\ About("NewProduct", h, None) = 1
                /\ \A vid \in DOMAIN new[h].variants :
                    About("NewVariant", h, vid) = 1

\* C19 amended: for such a product no NewVariant event at all; at most one
\* NewProduct event, one when diff_and_report returns, and it shows the
\* product's first variant
C19_NewProductOnly ==
    DiffDone =>
        \A h \in DOMAIN new \ DOMAIN old :
            Cardinality(DOMAIN new[h].variants) >= 2 =>
                /\ \A i \in 1..Len(events) :
                    events[i].handle = h =>
                        /\ events[i].kind = "NewProduct"
                        /\ events[i].rep = Head(VariantIds(new[h]))
                        /\ events[i].newPrice =
                                new[h].variants[Head(VariantIds(new[h]))].price
                /\ About("NewProduct", h, None) <= 1
                /\ pc # "crashed" => About("NewProduct", h, None) = 1

\* a new product whose two variants differ in price, and the run went on
C19_Witness ==
    /\ DiffDone /\ pc # "crashed"
    /\ \E h \in DOMAIN new \ DOMAIN old :
        /\ DOMAIN new[h].variants = Vids
        /\ new[h].variants[1].price # new[h].variants[2].price
        /\ About("NewProduct", h, None) = 1

\* C20: between runs the file is absent or holds one complete snapshot
C20_FileAbsentOrComplete ==
    pc \in {"idle", "crashed"} => file.state \in {"absent", "ok"}

====
